---- MODULE Spec2Model ----
\* Bucket-table exact-match search over a sorted array of 64-bit unsigned keys
\* (bucket_search_u64.c) and the caller protocol of the driver (test.c):
\* build once, then find repeatedly.
\*
\* A uint64_t is the set of its set bit positions (a subset of 0..63), so that
\* shifts, the truncation to uint32_t and comparisons keep the C widths.
EXTENDS Integers, Sequences, FiniteSets, TLC

\* ---------------------------------------------------------------- widths
WordBits == 64          \* uint64_t
PrefixBits == 32        \* uint32_t
KMax == 24              \* largest accepted K

\* ---------------------------------------------------------------- bounds
MaxLen == 3             \* longest sequence explored
MaxK == 3               \* largest valid K explored (table of 2^MaxK + 1)

\* bit positions the explored elements and keys are made of
ElemBitPos == {0, 1, 63}
KeyLowPos == {0, 1}
KeyHighPos == {2, 31, 32}

Elems == SUBSET ElemBitPos
Keys == Elems \cup {l \cup {h} : l \in SUBSET KeyLowPos, h \in KeyHighPos}
KChoices == {0} \cup (1..MaxK) \cup {KMax + 1}

\* ---------------------------------------------------------------- uint64_t arithmetic
Zero == {}
MaxBit(v) == CHOOSE b \in v : \A c \in v : c <= b
Shl(v, s) == {b + s : b \in {c \in v : c + s < WordBits}}
Shr(v, s) == {b - s : b \in {c \in v : c >= s}}
Trunc32(v) == {b \in v : b < PrefixBits}
Lt(v, w) == v # w /\ MaxBit((v \ w) \cup (w \ v)) \in w
Le(v, w) == v = w \/ Lt(v, w)

RECURSIVE Pow2(_)
Pow2(k) == IF k = 0 THEN 1 ELSE 2 * Pow2(k - 1)

RECURSIVE ToNat(_)
ToNat(v) == IF v = {} THEN 0 ELSE LET b == MaxBit(v) IN Pow2(b) + ToNat(v \ {b})

\* ---------------------------------------------------------------- helpers of the library
\* __builtin_clzll: the number of zero bits above the highest set bit of a
\* nonzero word (the callers never pass zero).
BS_CLZ64(v) == (WordBits - 1) - MaxBit(v)

bit_width_u64_zero0(v) ==
  IF v = Zero THEN 0 ELSE WordBits - BS_CLZ64(v)

bit_width_u64(v) ==
  IF v = Zero THEN 1 ELSE WordBits - BS_CLZ64(v)

prefix_u64_overshift(v, w, k) ==
  IF w >= k THEN Trunc32(Shr(v, w - k)) ELSE Trunc32(Shl(v, k - w + 1))

prefix_u64_noshift(v, w, k) ==
  IF w >= k THEN Trunc32(Shr(v, w - k)) ELSE Trunc32(v)

prefix_u64(v, w, k) ==
  IF w >= k THEN Trunc32(Shr(v, w - k)) ELSE Trunc32(Shl(v, k - w))

valid_K_nozero(k) == ~(k > KMax)

\* the range check on K shared by build and find: K == 0 || K > 24 is rejected
valid_K(k) == ~(k = 0 \/ k > KMax)

\* ---------------------------------------------------------------- state
VARIABLES
  a, n,          \* the caller's sorted sequence, a function on 0..n-1
  K,             \* fan-out parameter handed to build and to find
  hasStart,      \* the table pointer is non-null
  start,         \* the caller's table
  start0,        \* the table as the caller allocated it (history)
  pc,            \* "start", "b_init", "b_first", "b_fill", "ready", "failed", "lb", "f_tail", "ub"
  op,            \* the call that ran last: "none", "build", "find"
  bret,          \* build's return value
  W,             \* build's meaningful width
  p, i, last,    \* build's loop variables
  bp,            \* the prefix build computed last
  x,             \* find's key
  fW, fp,        \* find's meaningful width and prefix
  flo, fhi,      \* find's bucket range
  lo, hi,        \* lower_bound_u64's range
  ret,           \* find's return value
  acc,           \* the accesses of the running (or last) call: <<array, "r"|"w", index>>
  oob,           \* an access fell outside its array
  first,         \* <<key, result>> of the first find that returned, <<>> before it
  track          \* whether the run keeps `first` (history only)

vars == <<a, n, K, hasStart, start, start0, pc, op, bret, W, p, i, last, bp,
          x, fW, fp, flo, fhi, lo, hi, ret, acc, oob, first, track>>

buildLocals == <<W, p, i, last, bp, bret>>
findLocals == <<x, fW, fp, flo, fhi, lo, hi, ret, first>>
callerData == <<a, n, K, hasStart, start0, track>>

\* B = 1u << K
B == Pow2(K)

\* ---------------------------------------------------------------- initial states
IsSorted(f, len) == \A j \in 0..(len - 2) : Le(f[j], f[j + 1])
SortedArrays(len) == {f \in [0..(len - 1) -> Elems] : IsSorted(f, len)}

\* The driver allocates (1 << K) + 1 entries; their content is whatever malloc
\* left there.  For a K that build rejects the table has two entries.
AllocEntries(k) == IF valid_K(k) THEN Pow2(k) + 1 ELSE 2
Junk(k) == [q \in 0..(AllocEntries(k) - 1) |-> MaxLen + 2 + q]

InitLocals ==
  /\ start = Junk(K)
  /\ start0 = start
  /\ pc = "start" /\ op = "none" /\ bret = 0
  /\ W = 0 /\ p = 0 /\ i = 0 /\ last = 0 /\ bp = Zero
  /\ x = Zero /\ fW = 0 /\ fp = Zero /\ flo = 0 /\ fhi = 0 /\ lo = 0 /\ hi = 0
  /\ ret = -1
  /\ acc = {} /\ oob = FALSE /\ first = <<>>

Init ==
  /\ n \in 0..MaxLen
  /\ a \in SortedArrays(n)
  /\ K \in KChoices
  /\ hasStart \in BOOLEAN
  /\ track = FALSE
  /\ InitLocals

\* an access outside an array: the call's behaviour is undefined from here on
Undefined ==
  /\ oob' = TRUE /\ pc' = "ub"

\* the table index a uint32_t prefix addresses, when it is inside the table
InTable(q) == (q = Zero \/ MaxBit(q) <= KMax + 1) /\ ToNat(q) \in DOMAIN start

\* ---------------------------------------------------------------- bucketsearch_u64_build
first_occurrence_last(sp, idx, len) == idx

\* if (start[p] == n) start[p] = i;
first_occurrence(sp, idx, len) == IF sp = len THEN idx ELSE sp

\* if (start[p] == n) start[p] = last;
fill_hole(sp, lst, len) == IF sp = len THEN lst ELSE sp

\* Parameter checks, then W from the maximum element.
bucketsearch_u64_build ==
  /\ pc = "start"
  /\ op' = "build"
  /\ IF ~hasStart
       THEN /\ bret' = -1 /\ pc' = "failed"
            /\ UNCHANGED <<W, p, acc>>
       ELSE IF ~valid_K(K)
         THEN /\ bret' = -2 /\ pc' = "failed"
              /\ UNCHANGED <<W, p, acc>>
         ELSE /\ W' = bit_width_u64(IF n # 0 THEN a[n - 1] ELSE Zero)
              /\ acc' = IF n # 0 THEN {<<"a", "r", n - 1>>} ELSE {}
              /\ p' = 0 /\ pc' = "b_init"
              /\ UNCHANGED bret
  /\ UNCHANGED <<callerData, start, i, last, bp, findLocals, oob>>

\* for (p = 0; p <= B; p++) start[p] = n;
bucketsearch_u64_build_init ==
  /\ pc = "b_init"
  /\ IF p <= B
       THEN IF p \in DOMAIN start
         THEN /\ start' = [start EXCEPT ![p] = n]
              /\ acc' = acc \cup {<<"start", "w", p>>}
              /\ p' = p + 1
              /\ UNCHANGED <<pc, oob, i>>
         ELSE /\ Undefined
              /\ UNCHANGED <<start, acc, p, i>>
       ELSE /\ i' = 0 /\ pc' = "b_first"
            /\ UNCHANGED <<start, acc, p, oob>>
  /\ UNCHANGED <<callerData, op, bret, W, last, bp, findLocals>>

\* first occurrence per prefix, then start[B] = n
bucketsearch_u64_build_first ==
  /\ pc = "b_first"
  /\ IF i < n
       THEN LET q == prefix_u64(a[i], W, K) IN
         /\ bp' = q
         /\ IF InTable(q)
              THEN /\ start' = [start EXCEPT
                          ![ToNat(q)] = first_occurrence(start[ToNat(q)], i, n)]
                   /\ acc' = acc \cup {<<"a", "r", i>>, <<"start", "r", ToNat(q)>>}
                                 \cup (IF start[ToNat(q)] = n
                                         THEN {<<"start", "w", ToNat(q)>>} ELSE {})
                   /\ i' = i + 1
                   /\ UNCHANGED <<pc, oob>>
              ELSE /\ Undefined
                   /\ UNCHANGED <<start, acc, i>>
         /\ UNCHANGED <<p, last>>
       ELSE /\ start' = [start EXCEPT ![B] = n]
            /\ acc' = acc \cup {<<"start", "w", B>>}
            /\ last' = n /\ p' = B - 1 /\ pc' = "b_fill"
            /\ UNCHANGED <<i, bp, oob>>
  /\ UNCHANGED <<callerData, op, bret, W, findLocals>>

\* fill holes backwards, then return 0
bucketsearch_u64_build_fill ==
  /\ pc = "b_fill"
  /\ IF p >= 0
       THEN /\ start' = [start EXCEPT ![p] = fill_hole(start[p], last, n)]
            /\ acc' = acc \cup {<<"start", "r", p>>}
                          \cup (IF start[p] = n THEN {<<"start", "w", p>>} ELSE {})
            /\ last' = IF start[p] = n THEN last ELSE start[p]
            /\ p' = p - 1
            /\ UNCHANGED <<pc, bret, i>>
       ELSE /\ bret' = 0 /\ pc' = "ready"
            /\ p' = 0 /\ i' = 0 /\ last' = 0
            /\ UNCHANGED <<start, acc>>
  /\ UNCHANGED <<callerData, op, W, bp, findLocals, oob>>

\* ---------------------------------------------------------------- bucketsearch_u64_find
prefix_out_of_range_off1(q, k) == Lt({k}, q)

\* if (p >= B) return -1;   with B = 1u << K
prefix_out_of_range(q, k) == Le({k}, q)

quick_reject_tight(key, alo, ahi) == Lt(key, alo) \/ Le(ahi, key)

\* if (x < a[lo] || x > a[hi - 1]) return -1;
quick_reject(key, alo, ahi) == Lt(key, alo) \/ Lt(ahi, key)

go_right_le(amid, key) == Le(amid, key)

\* lower_bound_u64: if (a[mid] < x) lo = mid + 1; else hi = mid;
go_right(amid, key) == Lt(amid, key)

empty_check_never(len, k) == ~valid_K(k)

\* if (!a || !start || n == 0) return -1;  if (K == 0 || K > 24) return -1;
find_rejects(len, k) == len = 0 \/ ~valid_K(k)

\* The straight-line part of find, up to the call of lower_bound_u64:
\* what it returns or where it goes on, and what it has read.
bucketsearch_u64_find_head(key) ==
  IF find_rejects(n, K)
    THEN [kind |-> "ret", r |-> -1, w |-> 0, q |-> Zero, l |-> 0, h |-> 0, rd |-> {}]
  ELSE IF (n - 1) \notin DOMAIN a
    THEN [kind |-> "ub", r |-> -1, w |-> 0, q |-> Zero, l |-> 0, h |-> 0, rd |-> {}]
  ELSE
    LET w == bit_width_u64(a[n - 1])
        q == prefix_u64(key, w, K)
        rd0 == {<<"a", "r", n - 1>>}
    IN
    IF prefix_out_of_range(q, K)
      THEN [kind |-> "ret", r |-> -1, w |-> w, q |-> q, l |-> 0, h |-> 0, rd |-> rd0]
    ELSE IF ~(InTable(q) /\ (ToNat(q) + 1) \in DOMAIN start)
      THEN [kind |-> "ub", r |-> -1, w |-> w, q |-> q, l |-> 0, h |-> 0, rd |-> rd0]
    ELSE
      LET l == start[ToNat(q)]
          h == start[ToNat(q) + 1]
          rd1 == rd0 \cup {<<"start", "r", ToNat(q)>>, <<"start", "r", ToNat(q) + 1>>}
      IN
      IF l = h
        THEN [kind |-> "ret", r |-> -1, w |-> w, q |-> q, l |-> l, h |-> h, rd |-> rd1]
      ELSE IF l \notin DOMAIN a
        THEN [kind |-> "ub", r |-> -1, w |-> w, q |-> q, l |-> l, h |-> h, rd |-> rd1]
      ELSE IF Lt(key, a[l])
        THEN [kind |-> "ret", r |-> -1, w |-> w, q |-> q, l |-> l, h |-> h,
              rd |-> rd1 \cup {<<"a", "r", l>>}]
      ELSE IF (h - 1) \notin DOMAIN a
        THEN [kind |-> "ub", r |-> -1, w |-> w, q |-> q, l |-> l, h |-> h, rd |-> rd1]
      ELSE IF quick_reject(key, a[l], a[h - 1])
        THEN [kind |-> "ret", r |-> -1, w |-> w, q |-> q, l |-> l, h |-> h,
              rd |-> rd1 \cup {<<"a", "r", l>>, <<"a", "r", h - 1>>}]
      ELSE [kind |-> "lb", r |-> -1, w |-> w, q |-> q, l |-> l, h |-> h,
            rd |-> rd1 \cup {<<"a", "r", l>>, <<"a", "r", h - 1>>}]

\* find returns r: the locals of the call are gone
bucketsearch_u64_find_return(key, r) ==
  /\ ret' = r /\ pc' = "ready"
  /\ first' = IF track /\ first = <<>> THEN <<key, r>> ELSE first
  /\ lo' = 0 /\ hi' = 0

bucketsearch_u64_find(key) ==
  /\ pc = "ready"
  /\ op' = "find" /\ x' = key
  /\ LET o == bucketsearch_u64_find_head(key) IN
       /\ fW' = o.w /\ fp' = o.q /\ flo' = o.l /\ fhi' = o.h
       /\ acc' = o.rd
       /\ CASE o.kind = "ret" -> bucketsearch_u64_find_return(key, o.r) /\ UNCHANGED oob
            [] o.kind = "lb" -> /\ lo' = o.l /\ hi' = o.h /\ pc' = "lb"
                                /\ UNCHANGED <<ret, first, oob>>
            [] OTHER -> Undefined /\ UNCHANGED <<ret, first, lo, hi>>
  /\ UNCHANGED <<callerData, start, buildLocals>>

\* one iteration of lower_bound_u64's loop, or its return to find
lower_bound_u64 ==
  /\ pc = "lb"
  /\ IF lo < hi
       THEN LET mid == lo + ((hi - lo) \div 2) IN
         IF mid \in DOMAIN a
           THEN /\ acc' = acc \cup {<<"a", "r", mid>>}
                /\ IF go_right(a[mid], x)
                     THEN lo' = mid + 1 /\ UNCHANGED hi
                     ELSE hi' = mid /\ UNCHANGED lo
                /\ UNCHANGED <<pc, oob>>
           ELSE /\ Undefined
                /\ UNCHANGED <<acc, lo, hi>>
       ELSE /\ pc' = "f_tail"
            /\ UNCHANGED <<acc, lo, hi, oob>>
  /\ UNCHANGED <<callerData, start, buildLocals, op, x, fW, fp, flo, fhi, ret, first>>

\* bucketsearch_u64_find_tail, but a hit moves the bucket's start to the index found
bucketsearch_u64_find_tail_caching ==
  /\ pc = "f_tail"
  /\ IF lo # fhi
       THEN IF lo \in DOMAIN a
         THEN /\ acc' = acc \cup {<<"a", "r", lo>>}
                            \cup (IF a[lo] = x THEN {<<"start", "w", ToNat(fp)>>} ELSE {})
              /\ start' = IF a[lo] = x THEN [start EXCEPT ![ToNat(fp)] = lo] ELSE start
              /\ bucketsearch_u64_find_return(x, IF a[lo] = x THEN lo ELSE -1)
              /\ UNCHANGED oob
         ELSE /\ Undefined
              /\ UNCHANGED <<acc, lo, hi, ret, first, start>>
       ELSE /\ bucketsearch_u64_find_return(x, -1)
            /\ UNCHANGED <<acc, oob, start>>
  /\ UNCHANGED <<callerData, buildLocals, op, x, fW, fp, flo, fhi>>

\* i = lower_bound_u64(...); if (i != hi && a[i] == x) return i; return -1;
bucketsearch_u64_find_tail ==
  /\ pc = "f_tail"
  /\ IF lo # fhi
       THEN IF lo \in DOMAIN a
         THEN /\ acc' = acc \cup {<<"a", "r", lo>>}
              /\ bucketsearch_u64_find_return(x, IF a[lo] = x THEN lo ELSE -1)
              /\ UNCHANGED oob
         ELSE /\ Undefined
              /\ UNCHANGED <<acc, lo, hi, ret, first>>
       ELSE /\ bucketsearch_u64_find_return(x, -1)
            /\ UNCHANGED <<acc, oob>>
  /\ UNCHANGED <<callerData, start, buildLocals, op, x, fW, fp, flo, fhi>>

\* ---------------------------------------------------------------- the program
Next ==
  \/ bucketsearch_u64_build
  \/ bucketsearch_u64_build_init
  \/ bucketsearch_u64_build_first
  \/ bucketsearch_u64_build_fill
  \/ \E key \in Keys : bucketsearch_u64_find(key)
  \/ lower_bound_u64
  \/ bucketsearch_u64_find_tail

Spec == Init /\ [][Next]_vars

\* The same program, with the result of the first find kept, over the
\* sequences of small values.
InitRepeat ==
  /\ n \in 0..(MaxLen - 1)
  /\ a \in {f \in SortedArrays(n) : \A j \in 0..(n - 1) : f[j] \subseteq KeyLowPos}
  /\ K \in 1..MaxK
  /\ hasStart = TRUE
  /\ track = TRUE
  /\ InitLocals

SpecRepeat == InitRepeat /\ [][Next]_vars

\* ---------------------------------------------------------------- reference search (the driver)
RECURSIVE binary_loop(_, _, _, _)
binary_loop(arr, l, h, key) ==
  IF l < h
    THEN LET mid == l + ((h - l) \div 2) IN
         IF Lt(arr[mid], key) THEN binary_loop(arr, mid + 1, h, key)
                              ELSE binary_loop(arr, l, mid, key)
    ELSE l

binary_find_u64(arr, len, key) ==
  LET l == binary_loop(arr, 0, len, key) IN
  IF l < len /\ arr[l] = key THEN l ELSE -1

\* ---------------------------------------------------------------- properties
Built == pc \in {"ready", "lb", "f_tail"}
BuildDone == pc = "ready" /\ op = "build"
FindDone == pc = "ready" /\ op = "find"
Occurs(key) == \E j \in 0..(n - 1) : a[j] = key
Bucket(q) == {j \in 0..(n - 1) : start[q] <= j /\ j < start[q + 1]}
PrefixOf(j) == prefix_u64(a[j], W, K)
\* a prefix as a number, -1 when it is far above every table index
Index(q) == IF q = Zero THEN 0 ELSE IF MaxBit(q) > KMax + 1 THEN -1 ELSE ToNat(q)

\* C1: a find that has returned agrees with the reference binary search over
\* the whole sequence: a key that occurs is found at an index holding it, a
\* key that does not occur (keys above the maximum included) yields -1.
FindAgreesWithBinarySearch ==
  FindDone =>
    LET ref == binary_find_u64(a, n, x) IN
    /\ Occurs(x) => (ret \in 0..(n - 1) /\ a[ret] = x)
    /\ ~Occurs(x) => ret = -1
    /\ (ret = -1) <=> (ref = -1)
    /\ ret # -1 => a[ret] = a[ref]

FindHitInsideBucket ==
  /\ FindDone /\ n = MaxLen /\ ret > 0 /\ a[ret] = x
  /\ fhi - flo >= 2

\* C2: after a successful build the table starts at 0, ends at n, never
\* decreases, and bucket p is exactly the set of indices whose prefix is p.
TableInvariant ==
  BuildDone =>
    /\ start[0] = 0
    /\ start[B] = n
    /\ \A q \in 0..(B - 1) :
         /\ start[q] <= start[q + 1]
         /\ Bucket(q) = {j \in 0..(n - 1) : Index(PrefixOf(j)) = q}
    /\ UNION {Bucket(q) : q \in 0..(B - 1)} = 0..(n - 1)
    /\ \A q, r \in 0..(B - 1) : q # r => Bucket(q) \cap Bucket(r) = {}

TableWithHole ==
  /\ BuildDone /\ n = MaxLen
  /\ \E q \in 1..(B - 2) :
       /\ start[q] = start[q + 1]
       /\ 0 < start[q] /\ start[q] < n

\* C3: build answers a K of 0 or above 24, or an absent table, with a nonzero
\* status and leaves the table as it was; a K in 1..24 with a table gives 0.
InvalidParameterLeavesTable ==
  /\ (op # "none" /\ (K = 0 \/ K > KMax \/ ~hasStart)) =>
       (pc = "failed" /\ bret # 0 /\ start = start0)
  /\ (op # "none" /\ K \in 1..KMax /\ hasStart) =>
       (pc # "failed" /\ bret = 0)
  /\ pc = "failed" =>
       (hasStart => \A k \in 0..(KMax + 2) : valid_K(k) <=> k \in 1..KMax)

BuildRejectedK ==
  pc = "failed" /\ hasStart /\ K = KMax + 1 /\ start = start0 /\ n = MaxLen

\* C4 as stated: every prefix build or find computes is below 2^K.
PrefixAlwaysBelowB ==
  /\ (pc \in {"b_first", "b_fill"} \/ Built) => Lt(bp, {K})
  /\ (op = "find" /\ fW # 0) => Lt(fp, {K})

\* C4, amended: the prefix of every element, and of every key that is not
\* above the maximum element, is below 2^K; a key whose prefix is 2^K or more
\* is above the maximum and find answers it with -1 at its range check.
PrefixBelowBUpToMax ==
  /\ (pc \in {"b_first", "b_fill"} \/ Built) => Lt(bp, {K})
  /\ (op = "find" /\ fW # 0 /\ Le(x, a[n - 1])) => Lt(fp, {K})
  /\ (op = "find" /\ fW # 0 /\ ~Lt(fp, {K})) =>
       (pc = "ready" /\ ret = -1 /\ Lt(a[n - 1], x) /\ \A e \in acc : e[1] = "a")

FindPrefixOfSmallKey ==
  /\ FindDone /\ fW # 0 /\ fW < K /\ Lt(x, a[n - 1]) /\ fp # Zero

\* C5: for the empty sequence build succeeds and zeroes every entry, and find
\* returns -1 without reading the sequence or the table.
EmptySequence ==
  n = 0 =>
    /\ (op # "none" /\ hasStart /\ valid_K(K)) => (pc # "failed" /\ bret = 0)
    /\ Built => \A q \in 0..B : start[q] = 0
    /\ op = "find" => (pc = "ready" /\ ret = -1 /\ acc = {} /\ ~oob)

EmptySequenceFind ==
  n = 0 /\ FindDone /\ K = MaxK /\ x # Zero

\* C6: find writes neither the sequence nor the table, build writes only the
\* table, and a find of the key of the first find returns what that one did.
FrameAndRepeat ==
  /\ [](/\ op = "find" => \A e \in acc : e[2] = "r"
        /\ op = "build" => \A e \in acc : e[2] = "w" => e[1] = "start"
        /\ (FindDone /\ first # <<>> /\ x = first[1]) => ret = first[2])
  /\ [][/\ a' = a /\ n' = n
        /\ Built => start' = start]_vars

FindRepeated ==
  /\ FindDone /\ first # <<>> /\ x = first[1] /\ ret = first[2]
  /\ ret > 0 /\ <<"a", "r", ret>> \in acc

\* C7: when the maximum needs fewer than K bits, every element's prefix is the
\* element shifted left by K - W and is below 2^K, a bucket holds one value
\* only, and every element is found at an index holding it.
NarrowMaximum ==
  (Built /\ W < K) =>
    /\ \A j \in 0..(n - 1) :
         /\ Lt(PrefixOf(j), {K})
         /\ Index(PrefixOf(j)) = ToNat(a[j]) * Pow2(K - W)
    /\ \A q \in 0..(B - 1) : \A j, k \in Bucket(q) : a[j] = a[k]
    /\ (FindDone /\ Occurs(x)) => (ret \in 0..(n - 1) /\ a[ret] = x)

NarrowMaximumFound ==
  /\ FindDone /\ W < K /\ n = 3
  /\ a[0] = {0} /\ a[1] = {1} /\ a[2] = {0, 1}
  /\ x = {1} /\ ret = 1

\* C8: W is 1 for a zero maximum and floor(log2(max)) + 1 otherwise, find
\* derives the same W as build, and every element is below 2^W.
WidthOf(v, w) ==
  IF v = Zero THEN w = 1
  ELSE /\ w \in 1..WordBits
       /\ Le({w - 1}, v)
       /\ (w = WordBits \/ Lt(v, {w}))

MeaningfulWidth ==
  /\ op = "find" => WidthOf(x, bit_width_u64(x))
  /\ (pc \in {"b_init", "b_first", "b_fill"} \/ Built) =>
       /\ WidthOf(IF n # 0 THEN a[n - 1] ELSE Zero, W)
       /\ \A j \in 0..(n - 1) : W = WordBits \/ Lt(a[j], {W})
  /\ (op = "find" /\ fW # 0) => fW = W

FullWidthFind ==
  FindDone /\ fW = WordBits /\ W = WordBits /\ a[0] = Zero /\ n = MaxLen

\* C10: no access leaves its array, the bucket find reads is start[p] and
\* start[p+1] with p < 2^K, and the lower-bound loop stays inside the bucket
\* and narrows at every iteration.
AccessesInBounds ==
  /\ [](/\ ~oob /\ pc # "ub"
        /\ \A e \in acc : /\ e[1] = "start" => e[3] \in 0..B
                          /\ e[1] = "a" => e[3] \in 0..(n - 1)
        /\ pc \in {"lb", "f_tail"} =>
             /\ Lt(fp, {K})
             /\ flo = start[ToNat(fp)] /\ fhi = start[ToNat(fp) + 1]
             /\ flo <= lo /\ lo <= hi /\ hi <= fhi /\ fhi <= n)
  /\ [][(pc = "lb" /\ pc' = "lb") => (hi' - lo' < hi - lo)]_vars

FindAliasedPrefix ==
  /\ FindDone /\ 32 \in x /\ Lt(fp, {K})
  /\ <<"a", "r", fhi - 1>> \in acc /\ ret = -1

\* C9: a key that occurs is found at its smallest index, the index the
\* reference lower-bound search returns.
FindReturnsFirstOccurrence ==
  (FindDone /\ Occurs(x)) =>
    /\ ret = binary_find_u64(a, n, x)
    /\ ret \in 0..(n - 1) /\ a[ret] = x
    /\ \A j \in 0..(n - 1) : a[j] = x => ret <= j

FindAmongDuplicates ==
  /\ FindDone /\ n = MaxLen /\ ret = 1
  /\ a[1] = x /\ a[2] = x /\ a[0] # x

====
